---- MODULE Spec2Model ----
(***************************************************************************)
(* The course catalog's storage layer: the stored procedures               *)
(* dbo.save_course_data (one MERGE into dbo.courses WITH(HOLDLOCK)),       *)
(* dbo.save_schema (one MERGE into dbo.scraper_schemas) and dbo.get_schema *)
(* run by several sessions at once.                                        *)
(***************************************************************************)
EXTENDS Integers, Sequences, FiniteSets, TLC

\* ---------------------------------------------------------------- bounds
MaxRows == 2            \* rows submitted over a whole behaviour
MaxStored == 101        \* rows one source holds when the reads of a full table begin
MaxPerf == 3            \* rows a fetch of the performance listing returns
MaxClicks == 3          \* clicks on the tabs of the views page, and on the rows of the
                        \* status page

\* ---------------------------------------------------------------- program constants
TopRows == 100          \* SELECT TOP 100
PreviewLimit == 5       \* /courses?limit=5

\* ---------------------------------------------------------------- values
NULL == "<NULL>"                        \* the SQL NULL of a nullable column
Sources == {"S1", "S2"}                 \* rows of dbo.sources
Codes == {NULL, "", "CS101"}
Titles == {"", "Intro", "Algo"}         \* NOT NULL: no NULL here
Descs == {"v1", "v2"}
Procs == {"p1", "p2"}                   \* database sessions
SourceIds == Sources \cup {"S9"}        \* values of @source_id_in: S9 is no row of dbo.sources
SchemaJsons == {"{a}", "{b}"}           \* values of @schema_json_in

\* The table type of the @course_data parameter.
CourseData_v1 ==
    [course_code : Codes, course_title : Titles, course_description : Descs]

\* The rows the sessions submit: an absent and an empty code under one title,
\* a second course in two versions, and a row whose title is the empty string.
Rows ==
    {[course_code |-> NULL, course_title |-> "Intro", course_description |-> "v1"],
     [course_code |-> "", course_title |-> "Intro", course_description |-> "v2"],
     [course_code |-> "CS101", course_title |-> "Intro", course_description |-> "v1"],
     [course_code |-> "CS101", course_title |-> "Intro", course_description |-> "v2"],
     [course_code |-> NULL, course_title |-> "", course_description |-> "v1"]}

\* The values @course_data takes: ordered, non-empty, bounded.
Batches == UNION {[1..n -> Rows] : n \in 1..MaxRows}

\* Batches of one row: one course code under two titles.
TitleRows ==
    {[course_code |-> "CS101", course_title |-> "Intro", course_description |-> "v1"],
     [course_code |-> "CS101", course_title |-> "Algo", course_description |-> "v2"]}

TitleBatches == {<<r>> : r \in TitleRows}

NoCall == [sid |-> "none", rows |-> << >>]
NoStatement ==
    [sid |-> "none", rows |-> << >>, before |-> << >>, error |-> FALSE, repeat |-> FALSE,
     returned |-> {}, ok |-> TRUE]

NoSchemaCall == [sid |-> "none", json |-> "none"]
NoPut == [json |-> "none", alone |-> TRUE]
NoGet == [sid |-> "none", result |-> << >>, put |-> NoPut]
NoRead == [sid |-> "none", locks |-> {}]
NoData == [sid |-> "none", result |-> << >>]
ViewNames == {"va", "vb"}               \* names of database views
NoPreview == [name |-> "none", empty |-> FALSE]
NoSort == [field |-> "none", wasField |-> "none", wasDir |-> "none"]
NoArrival == [req |-> [view |-> "none", n |-> 0], ok |-> TRUE, active |-> << >>]

VARIABLES
    courses,    \* dbo.courses: the rows in insertion order
    pc,         \* per session: "idle", "waiting" (MERGE issued), "merging" (locks held),
                \* "stuck" (locks held by a transaction that never ends)
    call,       \* per session: the arguments of the running save_course_data
    matched,    \* per session: for each source row, the target rows the ON clause matched
    held,       \* per session: the key ranges its HOLDLOCK covers
    submitted,  \* rows submitted so far (bounds the behaviour)
    last,       \* history: the statement that completed last, dbo.courses before it,
                \* whether it repeated the arguments of the statement before it, what
                \* it returned and whether its caller saw it succeed
    base,       \* history: dbo.courses when the running group of overlapping calls began
    burst,      \* history: the calls issued since then, in order of issue
    scraper_schemas,    \* dbo.scraper_schemas: the rows in insertion order
    spc,        \* per session: "idle", "joined" (save_schema's MERGE has read the target)
    scall,      \* per session: the arguments of the running save_schema
    sjoin,      \* per session: the target rows save_schema's ON clause matched
    lastPut,    \* history, per source id: the payload of the save_schema that completed
                \* last, and whether the target rows of the id were still those it had read
    got,        \* history: the get_schema that ran last, its result set, and lastPut of
                \* its source id when it ran
    rd,         \* per session: the running get_data and the rows of dbo.courses its
                \* SELECT holds shared locks on
    gotData,    \* history: the get_data that completed last and its result set
    perfRows,   \* performance page: the state `rows`, the fetched run metrics
    sortField,  \* performance page: the column the table is sorted by
    sortDir,    \* performance page: "asc" or "desc"
    sorted,     \* performance page: the memo `sorted`, the rows as displayed
    clicked,    \* history: whether a column header has been clicked
    handled,    \* history: the header clicked last and the sort state it found
    views,      \* views page: the state `views`, the names /api/views returned
    active,     \* views page: the state `active`, << >> for null
    data,       \* views page: the state `data`, a function from view names to rows
    error,      \* views page: the state `error`, << >> for null
    listed,     \* views page: whether the /api/views request has completed
    inflight,   \* views page: the /api/view requests sent and not yet answered
    fetches,    \* history: per view name, the /api/view requests sent so far
    clicks,     \* history: the clicks on tabs so far (bounds the behaviour)
    arrived,    \* history: the /api/view request answered last and how
    expanded,   \* status page: the state `expanded`, << >> for null
    previews,   \* status page: the state `previews`, a function from school names
                \* to course previews
    asked,      \* status page: per school, the preview requests sent and not yet answered
    toggles,    \* history: the clicks on rows so far (bounds the behaviour)
    toggled,    \* history: the school whose row was clicked last, << >> before
    lastPreview \* history: the preview answered last, and whether the school had
                \* no rows in dbo.courses then

courseVars == <<courses, pc, call, matched, held, last, base, burst>>
schemaVars == <<scraper_schemas, spc, scall, sjoin, lastPut, got>>
readVars == <<rd, gotData>>
storeVars == <<courses, pc, call, matched, held, submitted, last, base, burst,
               scraper_schemas, spc, scall, sjoin, lastPut, got, rd, gotData>>
perfVars == <<perfRows, sortField, sortDir, sorted, clicked, handled>>
viewVars == <<views, active, data, error, listed, inflight, fetches, clicks, arrived>>
previewVars == <<expanded, previews, asked, toggles, toggled, lastPreview>>
uiVars == <<perfVars, viewVars, previewVars>>
vars == <<storeVars, uiVars>>

\* ---------------------------------------------------------------- the MERGE
\* COALESCE(x, '')
Coalesce(x) == IF x = NULL THEN "" ELSE x

\* Variant: the ON clause does not compare the source ids.
OnClause_AnySource(t, sid, s) ==
    /\ Coalesce(t.course_code) = Coalesce(s.course_code)
    /\ t.course_title = s.course_title

\* Variant: the ON clause compares the codes only.
OnClause_CodeOnly(t, sid, s) ==
    /\ t.course_source_id = sid
    /\ Coalesce(t.course_code) = Coalesce(s.course_code)

\* Variant: the ON clause compares the titles only.
OnClause_TitleOnly(t, sid, s) ==
    /\ t.course_source_id = sid
    /\ t.course_title = s.course_title

\* Variant: the codes are compared without COALESCE, so a NULL code equals nothing.
OnClause_NoCoalesce(t, sid, s) ==
    /\ t.course_source_id = sid
    /\ t.course_code # NULL /\ s.course_code # NULL /\ t.course_code = s.course_code
    /\ t.course_title = s.course_title

\* The ON clause of the MERGE: target row t against source row s of source sid.
OnClause(t, sid, s) ==
    /\ t.course_source_id = sid
    /\ Coalesce(t.course_code) = Coalesce(s.course_code)
    /\ t.course_title = s.course_title

\* The join of the MERGE: for each source row, the target rows it matches.
MatchRows(T, sid, rows) ==
    [j \in DOMAIN rows |-> {i \in DOMAIN T : OnClause(T[i], sid, rows[j])}]

\* A target row matched by more than one source row: the MERGE fails
\* (error 8672) and changes nothing.
MultiMatch(rows, m) ==
    \E j1, j2 \in DOMAIN rows : j1 # j2 /\ m[j1] \cap m[j2] # {}

\* Variant: the matched row keeps its description.
UpdateSet_Keep(t, s) == t

\* Variant: the update also overwrites the stored code with the incoming one.
UpdateSet_WithCode(t, s) ==
    [t EXCEPT !.course_description = s.course_description,
              !.course_code = s.course_code]

\* WHEN MATCHED THEN UPDATE SET course_description = source.description
UpdateSet(t, s) == [t EXCEPT !.course_description = s.course_description]

\* WHEN NOT MATCHED BY TARGET THEN INSERT (...) VALUES (...)
InsertValues(sid, s) ==
    [course_source_id |-> sid, course_code |-> s.course_code,
     course_title |-> s.course_title, course_description |-> s.course_description]

\* Variant: every source row is inserted, matched or not.
Unmatched_All(rows, m) == [j \in 1..Len(rows) |-> j]

\* The source rows of the NOT MATCHED branch, in input order.
Unmatched(rows, m) ==
    SelectSeq([j \in 1..Len(rows) |-> j], LAMBDA j : m[j] = {})

\* Variant: the target is emptied and the batch inserted.
WriteMerge_Replace(T, sid, rows, m) ==
    [j \in 1..Len(rows) |-> InsertValues(sid, rows[j])]

\* The table after the MERGE wrote what the join m decided.
WriteMerge(T, sid, rows, m) ==
    IF MultiMatch(rows, m) THEN T
    ELSE LET upd == [i \in DOMAIN T |->
                        IF \E j \in DOMAIN rows : i \in m[j]
                        THEN UpdateSet(T[i], rows[CHOOSE j \in DOMAIN rows : i \in m[j]])
                        ELSE T[i]]
             um == Unmatched(rows, m)
             ins == [k \in 1..Len(um) |-> InsertValues(sid, rows[um[k]])]
         IN upd \o ins

\* One save_course_data call run alone on table T.
SaveCourseData(T, sid, rows) == WriteMerge(T, sid, rows, MatchRows(T, sid, rows))

\* ---------------------------------------------------------------- locking
\* What a range lock on dbo.courses can cover: the keys the ON clause tells
\* apart, <<source, COALESCE(code, ''), title>>.
\* What the procedure hands back to its caller, as a set of result rows:
\* SET NOCOUNT ON suppresses the row-count messages, and the body has no
\* SELECT and no OUTPUT clause, so there is no result set.
Returned(T, sid, rows, m) == {}

\* Variant: the procedure catches the error and returns normally.
Reported_Swallowed(failed) == TRUE

\* Whether the caller sees the call succeed: the body has no TRY...CATCH, so
\* an error of the statement or of the connection reaches the caller.
Reported(failed) == ~failed

KeyRanges == SourceIds \X {Coalesce(c) : c \in Codes} \X Titles

\* The keys the ON clause probes for the rows of a batch.
Probed(sid, rows) ==
    {<<sid, Coalesce(rows[j].course_code), rows[j].course_title>> : j \in DOMAIN rows}

\* HOLDLOCK keeps, until the statement commits, locks on the ranges the MERGE
\* read. Which ranges it reads is the engine's choice of access path: the
\* probed keys alone, every key of the source, or the whole table.
LockScopes(sid, rows) ==
    {Probed(sid, rows), {r \in KeyRanges : r[1] = sid}, KeyRanges}

\* Variant: the MERGE without HOLDLOCK, its read locks not held to the write.
Grantable_NoLock(p, scope) == TRUE

\* HOLDLOCK: a range is granted only while no other session holds part of it.
Grantable(p, scope) == \A q \in Procs \ {p} : held[q] \cap scope = {}

CanEnter(p) == \E scope \in LockScopes(call[p].sid, call[p].rows) : Grantable(p, scope)

InFlight == {p \in Procs : pc[p] # "idle"}

\* The rows of dbo.courses a session's MERGE is about to update.
Updating(p) == UNION {matched[p][j] : j \in DOMAIN matched[p]}

\* Variant: shared locks of readers do not delay the update.
WriteGrantable_Versioned(p) == TRUE

\* The exclusive row locks of the update are granted only while no other
\* session holds a shared lock on one of the rows.
WriteGrantable(p) == \A q \in Procs \ {p} : rd[q].locks \cap Updating(p) = {}

\* ---------------------------------------------------------------- actions
InitRest ==
    /\ pc = [p \in Procs |-> "idle"]
    /\ call = [p \in Procs |-> NoCall]
    /\ matched = [p \in Procs |-> << >>]
    /\ held = [p \in Procs |-> {}]
    /\ submitted = 0
    /\ last = NoStatement
    /\ base = << >>
    /\ burst = << >>
    /\ scraper_schemas = << >>
    /\ spc = [p \in Procs |-> "idle"]
    /\ scall = [p \in Procs |-> NoSchemaCall]
    /\ sjoin = [p \in Procs |-> {}]
    /\ lastPut = [sid \in SourceIds |-> NoPut]
    /\ got = NoGet
    /\ rd = [p \in Procs |-> NoRead]
    /\ gotData = NoData
    /\ perfRows = << >>
    /\ sortField = "courses_extracted_ts"
    /\ sortDir = "desc"
    /\ sorted = << >>
    /\ clicked = FALSE
    /\ handled = NoSort
    /\ views = << >>
    /\ active = << >>
    /\ data = << >>
    /\ error = << >>
    /\ listed = FALSE
    /\ inflight = {}
    /\ fetches = [v \in ViewNames |-> 0]
    /\ clicks = 0
    /\ arrived = NoArrival
    /\ expanded = << >>
    /\ previews = << >>
    /\ asked = [name \in Sources |-> 0]
    /\ toggles = 0
    /\ toggled = << >>
    /\ lastPreview = NoPreview

Init ==
    /\ courses = << >>
    /\ InitRest

\* A session executes dbo.save_course_data(sid, rows).
Call(p, sid, rows) ==
    /\ pc[p] = "idle"
    /\ spc[p] = "idle"
    /\ rd[p] = NoRead
    /\ submitted + Len(rows) <= MaxRows
    /\ pc' = [pc EXCEPT ![p] = "waiting"]
    /\ call' = [call EXCEPT ![p] = [sid |-> sid, rows |-> rows]]
    /\ submitted' = submitted + Len(rows)
    /\ IF InFlight = {}
       THEN /\ base' = courses
            /\ burst' = <<[sid |-> sid, rows |-> rows]>>
       ELSE /\ base' = base
            /\ burst' = Append(burst, [sid |-> sid, rows |-> rows])
    /\ UNCHANGED <<courses, matched, held, last>>
    /\ UNCHANGED schemaVars
    /\ UNCHANGED readVars
    /\ UNCHANGED uiVars

\* The MERGE takes its range locks and joins source and target.
Compare(p, scope) ==
    /\ pc[p] = "waiting"
    /\ scope \in LockScopes(call[p].sid, call[p].rows)
    /\ Grantable(p, scope)
    /\ pc' = [pc EXCEPT ![p] = "merging"]
    /\ held' = [held EXCEPT ![p] = scope]
    /\ matched' = [matched EXCEPT ![p] = MatchRows(courses, call[p].sid, call[p].rows)]
    /\ UNCHANGED <<courses, call, submitted, last, base, burst>>
    /\ UNCHANGED schemaVars
    /\ UNCHANGED readVars
    /\ UNCHANGED uiVars

\* The MERGE writes, the statement commits and its locks are released.
Write(p) ==
    /\ pc[p] = "merging"
    /\ WriteGrantable(p)
    /\ courses' = WriteMerge(courses, call[p].sid, call[p].rows, matched[p])
    /\ last' = [sid |-> call[p].sid, rows |-> call[p].rows, before |-> courses,
                error |-> MultiMatch(call[p].rows, matched[p]),
                repeat |-> last.sid = call[p].sid /\ last.rows = call[p].rows,
                returned |-> Returned(courses, call[p].sid, call[p].rows,
                                      matched[p]),
                ok |-> Reported(MultiMatch(call[p].rows, matched[p]))]
    /\ pc' = [pc EXCEPT ![p] = "idle"]
    /\ call' = [call EXCEPT ![p] = NoCall]
    /\ matched' = [matched EXCEPT ![p] = << >>]
    /\ held' = [held EXCEPT ![p] = {}]
    /\ UNCHANGED <<submitted, base, burst>>
    /\ UNCHANGED schemaVars
    /\ UNCHANGED readVars
    /\ UNCHANGED uiVars

Next ==
    \/ \E p \in Procs, sid \in Sources, rows \in Batches : Call(p, sid, rows)
    \/ \E p \in Procs : \E scope \in LockScopes(call[p].sid, call[p].rows) :
            Compare(p, scope)
    \/ \E p \in Procs : Write(p)

Spec == Init /\ [][Next]_vars

\* ---------------------------------------------------------------- failures
\* The storage becomes unavailable to a session whose MERGE has not
\* committed: the statement is rolled back and its locks are released.
Lost(p) ==
    /\ pc[p] \in {"waiting", "merging"}
    /\ last' = [sid |-> call[p].sid, rows |-> call[p].rows, before |-> courses,
                error |-> TRUE,
                repeat |-> last.sid = call[p].sid /\ last.rows = call[p].rows,
                returned |-> {},
                ok |-> Reported(TRUE)]
    /\ pc' = [pc EXCEPT ![p] = "idle"]
    /\ call' = [call EXCEPT ![p] = NoCall]
    /\ matched' = [matched EXCEPT ![p] = << >>]
    /\ held' = [held EXCEPT ![p] = {}]
    /\ UNCHANGED <<courses, submitted, base, burst>>
    /\ UNCHANGED schemaVars
    /\ UNCHANGED readVars
    /\ UNCHANGED uiVars

\* The MERGE writes and commits, and the storage becomes unavailable
\* before the session has answered its caller.
WriteLost(p) ==
    /\ pc[p] = "merging"
    /\ WriteGrantable(p)
    /\ courses' = WriteMerge(courses, call[p].sid, call[p].rows, matched[p])
    /\ last' = [sid |-> call[p].sid, rows |-> call[p].rows, before |-> courses,
                error |-> MultiMatch(call[p].rows, matched[p]),
                repeat |-> last.sid = call[p].sid /\ last.rows = call[p].rows,
                returned |-> {},
                ok |-> Reported(TRUE)]
    /\ pc' = [pc EXCEPT ![p] = "idle"]
    /\ call' = [call EXCEPT ![p] = NoCall]
    /\ matched' = [matched EXCEPT ![p] = << >>]
    /\ held' = [held EXCEPT ![p] = {}]
    /\ UNCHANGED <<submitted, base, burst>>
    /\ UNCHANGED schemaVars
    /\ UNCHANGED readVars
    /\ UNCHANGED uiVars

\* The calls of one source, with the failures of the storage.
FailNext ==
    \/ \E p \in Procs, rows \in Batches : Call(p, "S1", rows)
    \/ \E p \in Procs : \E scope \in LockScopes(call[p].sid, call[p].rows) :
            Compare(p, scope)
    \/ \E p \in Procs : Write(p)
    \/ \E p \in Procs : Lost(p)
    \/ \E p \in Procs : WriteLost(p)

FailSpec == Init /\ [][FailNext]_vars

\* The transaction around a session's MERGE never ends: the procedure
\* neither opens nor commits one, so the HOLDLOCK ranges stay held as long
\* as the caller's transaction stays open.
Stall(p) ==
    /\ pc[p] = "merging"
    /\ pc' = [pc EXCEPT ![p] = "stuck"]
    /\ UNCHANGED <<courses, call, matched, held, submitted, last, base, burst>>
    /\ UNCHANGED schemaVars
    /\ UNCHANGED readVars
    /\ UNCHANGED uiVars

\* The lock manager grants a waiting session a range it can have.
Enter(p) == \E scope \in LockScopes(call[p].sid, call[p].rows) : Compare(p, scope)

LiveNext ==
    \/ \E p \in Procs, sid \in Sources, rows \in TitleBatches : Call(p, sid, rows)
    \/ \E p \in Procs : Enter(p)
    \/ \E p \in Procs : Write(p)
    \/ \E p \in Procs : Stall(p)

\* A grantable lock request is granted and a running statement finishes;
\* the procedure sets no LOCK_TIMEOUT, so nothing else ends a wait.
LiveSpec ==
    /\ Init
    /\ [][LiveNext]_vars
    /\ \A p \in Procs : WF_vars(Enter(p)) /\ WF_vars(Write(p))

\* ---------------------------------------------------------------- reads of dbo.courses
\* The rows dbo.get_data selects: those of the id, joined to dbo.sources.
DataHits(T, sid) ==
    {i \in DOMAIN T : T[i].course_source_id \in Sources /\ T[i].course_source_id = sid}

\* The subsets of k elements of a set of numbers.
RECURSIVE KSubsets(_, _)
KSubsets(S, k) ==
    IF k = 0 THEN {{}}
    ELSE UNION {{{x} \cup R : R \in KSubsets({y \in S : y > x}, k - 1)} : x \in S}

\* TOP 100 without ORDER BY: which of the selected rows are left out, when
\* there are more than 100, is not determined.
Excess(T, sid) ==
    LET n == Cardinality(DataHits(T, sid))
    IN IF n > TopRows THEN n - TopRows ELSE 0

Skips(T, sid) == KSubsets(DataHits(T, sid), Excess(T, sid))

\* Variant: the SELECT without TOP.
GetData_NoTop(T, sid, skip) ==
    LET hits == DataHits(T, sid)
        idx == SelectSeq([i \in 1..Len(T) |-> i], LAMBDA i : i \in hits)
    IN [k \in 1..Len(idx) |->
            [course_code |-> T[idx[k]].course_code,
             course_title |-> T[idx[k]].course_title,
             course_description |-> T[idx[k]].course_description]]

\* The result set of dbo.get_data: three columns of the selected rows.
GetData(T, sid, skip) ==
    LET hits == DataHits(T, sid) \ skip
        idx == SelectSeq([i \in 1..Len(T) |-> i], LAMBDA i : i \in hits)
    IN [k \in 1..Len(idx) |->
            [course_code |-> T[idx[k]].course_code,
             course_title |-> T[idx[k]].course_title,
             course_description |-> T[idx[k]].course_description]]

\* The shared locks of the SELECT: none when the database reads row
\* versions, the rows it reads otherwise. The procedure asks for neither.
ReadLocks(T, sid) == {{}, DataHits(T, sid)}

\* A session executes dbo.get_data(sid): the SELECT starts.
GetDataBegin(p, sid, locks) ==
    /\ pc[p] = "idle"
    /\ spc[p] = "idle"
    /\ rd[p] = NoRead
    /\ locks \in ReadLocks(courses, sid)
    /\ rd' = [rd EXCEPT ![p] = [sid |-> sid, locks |-> locks]]
    /\ UNCHANGED <<gotData, submitted>>
    /\ UNCHANGED courseVars
    /\ UNCHANGED schemaVars
    /\ UNCHANGED uiVars

\* The SELECT returns its result set and its locks are released.
GetDataEnd(p, skip) ==
    /\ rd[p] # NoRead
    /\ skip \subseteq DataHits(courses, rd[p].sid)
    /\ Cardinality(skip) = Excess(courses, rd[p].sid)
    /\ gotData' = [sid |-> rd[p].sid, result |-> GetData(courses, rd[p].sid, skip)]
    /\ rd' = [rd EXCEPT ![p] = NoRead]
    /\ UNCHANGED submitted
    /\ UNCHANGED courseVars
    /\ UNCHANGED schemaVars
    /\ UNCHANGED uiVars

\* The writers of dbo.courses with its readers.
ReadNext ==
    \/ \E p \in Procs, sid \in Sources, rows \in TitleBatches : Call(p, sid, rows)
    \/ \E p \in Procs : Enter(p)
    \/ \E p \in Procs : Write(p)
    \/ \E p \in Procs, sid \in SourceIds :
            \E locks \in ReadLocks(courses, sid) : GetDataBegin(p, sid, locks)
    \/ \E p \in Procs : \E skip \in Skips(courses, rd[p].sid) : GetDataEnd(p, skip)

ReadSpec == Init /\ [][ReadNext]_vars

\* A table in which one source holds n rows, after a row of another source
\* and a row of an id that is not in dbo.sources.
FullTable(n) ==
    <<[course_source_id |-> "S2", course_code |-> "CS101", course_title |-> "Algo",
       course_description |-> "v2"],
      [course_source_id |-> "S9", course_code |-> "CS101", course_title |-> "Intro",
       course_description |-> "v2"]>>
    \o [i \in 1..n |->
          [course_source_id |-> "S1", course_code |-> "CS101", course_title |-> "Intro",
           course_description |-> "v1"]]

DataInit ==
    /\ courses \in {FullTable(n) : n \in 0..MaxStored}
    /\ InitRest

\* One session reads tables of up to MaxStored rows per source.
DataNext ==
    \/ \E sid \in SourceIds :
            \E locks \in ReadLocks(courses, sid) : GetDataBegin("p1", sid, locks)
    \/ \E skip \in Skips(courses, rd["p1"].sid) : GetDataEnd("p1", skip)

DataSpec == DataInit /\ [][DataNext]_vars

\* ---------------------------------------------------------------- the schema store
\* ON (target.scraper_schema_source_id = source.source_id)
SchemaOnClause(t, sid) == t.scraper_schema_source_id = sid

\* The join of save_schema's MERGE: the target rows of the source id.
MatchSchema(T, sid) == {i \in DOMAIN T : SchemaOnClause(T[i], sid)}

\* Variant: the update leaves the stored payload as it was.
SchemaUpdateSet_Keep(t, json) == t

\* WHEN MATCHED THEN UPDATE SET scraper_schema_json = source.schema_json
SchemaUpdateSet(t, json) == [t EXCEPT !.scraper_schema_json = json]

\* WHEN NOT MATCHED BY TARGET THEN INSERT (...) VALUES (...)
SchemaInsertValues(sid, json) ==
    [scraper_schema_source_id |-> sid, scraper_schema_json |-> json]

\* The write of save_schema's MERGE, given the join m it computed.
WriteSchema(T, sid, json, m) ==
    IF m = {}
    THEN Append(T, SchemaInsertValues(sid, json))
    ELSE [i \in DOMAIN T |-> IF i \in m THEN SchemaUpdateSet(T[i], json) ELSE T[i]]

\* Variant: the SELECT without the join to dbo.sources.
GetSchema_NoJoin(T, sid) ==
    LET hits == SelectSeq(T, LAMBDA t : t.scraper_schema_source_id = sid)
    IN [i \in DOMAIN hits |-> hits[i].scraper_schema_json]

\* dbo.get_schema: the payloads of the rows of the id, joined to dbo.sources.
GetSchema(T, sid) ==
    LET hits == SelectSeq(T, LAMBDA t : /\ t.scraper_schema_source_id \in Sources
                                        /\ t.scraper_schema_source_id = sid)
    IN [i \in DOMAIN hits |-> hits[i].scraper_schema_json]

\* A session executes dbo.save_schema(sid, json): the MERGE, which carries
\* no lock hint, reads the target.
SaveSchemaRead(p, sid, json) ==
    /\ pc[p] = "idle"
    /\ spc[p] = "idle"
    /\ rd[p] = NoRead
    /\ submitted + 1 <= MaxRows
    /\ submitted' = submitted + 1
    /\ spc' = [spc EXCEPT ![p] = "joined"]
    /\ scall' = [scall EXCEPT ![p] = [sid |-> sid, json |-> json]]
    /\ sjoin' = [sjoin EXCEPT ![p] = MatchSchema(scraper_schemas, sid)]
    /\ UNCHANGED <<scraper_schemas, lastPut, got>>
    /\ UNCHANGED courseVars
    /\ UNCHANGED readVars
    /\ UNCHANGED uiVars

\* The MERGE of save_schema writes and the statement commits.
SaveSchemaWrite(p) ==
    /\ spc[p] = "joined"
    /\ scraper_schemas' =
            WriteSchema(scraper_schemas, scall[p].sid, scall[p].json, sjoin[p])
    /\ lastPut' = [lastPut EXCEPT ![scall[p].sid] =
            [json |-> scall[p].json,
             alone |-> MatchSchema(scraper_schemas, scall[p].sid) = sjoin[p]]]
    /\ spc' = [spc EXCEPT ![p] = "idle"]
    /\ scall' = [scall EXCEPT ![p] = NoSchemaCall]
    /\ sjoin' = [sjoin EXCEPT ![p] = {}]
    /\ UNCHANGED <<got, submitted>>
    /\ UNCHANGED courseVars
    /\ UNCHANGED readVars
    /\ UNCHANGED uiVars

\* A session executes dbo.get_schema(sid): one SELECT.
GetSchemaCall(p, sid) ==
    /\ pc[p] = "idle"
    /\ spc[p] = "idle"
    /\ rd[p] = NoRead
    /\ got' = [sid |-> sid, result |-> GetSchema(scraper_schemas, sid),
               put |-> lastPut[sid]]
    /\ UNCHANGED <<scraper_schemas, spc, scall, sjoin, lastPut, submitted>>
    /\ UNCHANGED courseVars
    /\ UNCHANGED readVars
    /\ UNCHANGED uiVars

\* Both write procedures and the schema read, called with any source id.
GatewayNext ==
    \/ \E p \in Procs, sid \in SourceIds, json \in SchemaJsons :
            SaveSchemaRead(p, sid, json)
    \/ \E p \in Procs : SaveSchemaWrite(p)
    \/ \E p \in Procs, sid \in SourceIds : GetSchemaCall(p, sid)
    \/ \E p \in Procs, sid \in SourceIds, rows \in TitleBatches : Call(p, sid, rows)
    \/ \E p \in Procs : \E scope \in LockScopes(call[p].sid, call[p].rows) :
            Compare(p, scope)
    \/ \E p \in Procs : Write(p)

GatewaySpec == Init /\ [][GatewayNext]_vars

\* ---------------------------------------------------------------- the performance page
\* A finish time as the page receives it: << >> is null, <<t>> a timestamp
\* string, t its rank in the order of the strings.
FinishTimes == {<< >>, <<1>>, <<2>>}

\* The fields of a PerformanceRow the model keeps.
PerformanceRow == [run_id : 1..MaxPerf, courses_extracted_ts : FinishTimes]

\* The values of json.data: rows of distinct runs.
Fetched ==
    UNION {{[i \in 1..n |-> [run_id |-> i, courses_extracted_ts |-> f[i]]] :
                f \in [1..n -> FinishTimes]} : n \in 0..MaxPerf}

SortFields == {"run_id", "courses_extracted_ts"}

\* a[sortField], a number or a string or null.
FieldOf(a, field) ==
    IF field = "run_id" THEN <<a.run_id>> ELSE a.courses_extracted_ts

\* (x ?? 0) < (y ?? 0) for two numbers or two strings, and for a string and
\* a null: the null becomes the number 0, the string is not a number, and
\* every comparison of the two is false.
Less(x, y) == x # << >> /\ y # << >> /\ x[1] < y[1]

\* The comparator handed to Array.prototype.sort.
CompareFn(a, b, field, dir) ==
    IF Less(FieldOf(a, field), FieldOf(b, field))
    THEN (IF dir = "asc" THEN -1 ELSE 1)
    ELSE IF Less(FieldOf(b, field), FieldOf(a, field))
         THEN (IF dir = "asc" THEN 1 ELSE -1)
         ELSE 0

InsertAt(a, k, x) == SubSeq(a, 1, k) \o <<x>> \o SubSeq(a, k + 1, Len(a))

\* Where a binary search puts pivot among the sorted a: after the left
\* elements, left and right counting elements of a.
RECURSIVE BinaryPlace(_, _, _, _, _, _)
BinaryPlace(a, pivot, left, right, field, dir) ==
    IF left >= right THEN left
    ELSE LET mid == left + ((right - left) \div 2)
         IN IF CompareFn(pivot, a[mid + 1], field, dir) < 0
            THEN BinaryPlace(a, pivot, left, mid, field, dir)
            ELSE BinaryPlace(a, pivot, mid + 1, right, field, dir)

\* Where a scan from the right puts pivot among the sorted a.
RECURSIVE LinearPlace(_, _, _, _, _)
LinearPlace(a, pivot, k, field, dir) ==
    IF k > 0 /\ CompareFn(a[k], pivot, field, dir) > 0
    THEN LinearPlace(a, pivot, k - 1, field, dir)
    ELSE k

\* Array.prototype.sort on a short array is an insertion sort; engines
\* differ in how they search the place of an element.
RECURSIVE InsertionSort(_, _, _, _, _)
InsertionSort(a, i, field, dir, binary) ==
    IF i > Len(a) THEN a
    ELSE LET done == SubSeq(a, 1, i - 1)
             k == IF binary THEN BinaryPlace(done, a[i], 0, i - 1, field, dir)
                            ELSE LinearPlace(done, a[i], i - 1, field, dir)
         IN InsertionSort(InsertAt(done, k, a[i]) \o SubSeq(a, i + 1, Len(a)),
                          i + 1, field, dir, binary)

\* The values the memo `sorted` can take for the state of the page.
SortOutcomes(a, field, dir) ==
    {InsertionSort(a, 2, field, dir, binary) : binary \in BOOLEAN}

\* fetchData completes: setRows(json.data || []), and the memo is recomputed.
FetchData(r, out) ==
    /\ out \in SortOutcomes(r, sortField, sortDir)
    /\ perfRows' = r
    /\ sorted' = out
    /\ UNCHANGED <<sortField, sortDir, clicked, handled>>
    /\ UNCHANGED <<storeVars, viewVars, previewVars>>

\* Variant: a click never flips the direction.
DirAfter_Desc(field) == "desc"

\* The direction after a click on the header of a column.
DirAfter(field) ==
    IF sortField = field THEN (IF sortDir = "asc" THEN "desc" ELSE "asc") ELSE "desc"

\* handleSort(field), and the memo is recomputed.
HandleSort(field, out) ==
    /\ out \in SortOutcomes(perfRows, field, DirAfter(field))
    /\ sortField' = field
    /\ sortDir' = DirAfter(field)
    /\ sorted' = out
    /\ clicked' = TRUE
    /\ handled' = [field |-> field, wasField |-> sortField, wasDir |-> sortDir]
    /\ UNCHANGED perfRows
    /\ UNCHANGED <<storeVars, viewVars, previewVars>>

PerfNext ==
    \/ \E r \in Fetched : \E out \in SortOutcomes(r, sortField, sortDir) : FetchData(r, out)
    \/ \E field \in SortFields :
            \E out \in SortOutcomes(perfRows, field, DirAfter(field)) :
                HandleSort(field, out)

PerfSpec == Init /\ [][PerfNext]_vars

\* ---------------------------------------------------------------- the views page
\* The values of json.views.
ViewLists == {<< >>, <<"va", "vb">>}

\* The values of json.data for a view: no rows, a row of that view, or two
\* rows of that view with different fields, one of them null.
ViewRows(v) ==
    {<< >>,
     <<[view |-> v]>>,
     <<[view |-> v, code |-> NULL], [view |-> v, title |-> "t"]>>}

\* The order in which a response names the fields of a row.
FieldOrder == <<"view", "code", "title">>

\* Object.keys(r)
ObjectKeys(r) == SelectSeq(FieldOrder, LAMBDA k : k \in DOMAIN r)

\* rows.flatMap(r => Object.keys(r))
RECURSIVE FlatMapKeys(_)
FlatMapKeys(rows) ==
    IF rows = << >> THEN << >>
    ELSE ObjectKeys(Head(rows)) \o FlatMapKeys(Tail(rows))

\* Array.from(new Set(a)): the elements of a in the order of their first
\* occurrence.
RECURSIVE ArrayFromSet(_)
ArrayFromSet(a) ==
    IF a = << >> THEN << >>
    ELSE LET init == ArrayFromSet(SubSeq(a, 1, Len(a) - 1))
             x == a[Len(a)]
         IN IF \E i \in DOMAIN init : init[i] = x THEN init ELSE Append(init, x)

\* Variant: the headers are the fields of the first row.
Headers_FirstRow(rows) == IF Len(rows) > 0 THEN ObjectKeys(rows[1]) ELSE << >>

\* headers = rows.length ? Array.from(new Set(rows.flatMap(...))) : []
Headers(rows) == IF Len(rows) > 0 THEN ArrayFromSet(FlatMapKeys(rows)) ELSE << >>

\* String(r[h] ?? ''): r[h] is undefined for a field r does not have.
Cell(r, h) == IF h \in DOMAIN r /\ r[h] # NULL THEN r[h] ELSE ""

\* The cells of the table body: one row of cells per row, one cell per header.
TableBody(rows) ==
    [i \in DOMAIN rows |-> [k \in DOMAIN Headers(rows) |-> Cell(rows[i], Headers(rows)[k])]]

\* Variant: the effect does not look at d[a].
Wanted_Always(a, d) == IF a # << >> THEN {a[1]} ELSE {}

\* The effect on [active, data], run for the state (a, d): unless a is null
\* or d[a] is set, loadData sends a request for a.
Wanted(a, d) == IF a # << >> /\ a[1] \notin DOMAIN d THEN {a[1]} ELSE {}

\* The requests in flight and the count of requests after the effect ran.
Sent(a, d, pending) == pending \cup {[view |-> v, n |-> fetches[v] + 1] : v \in Wanted(a, d)}
Counted(a, d) == [v \in ViewNames |-> IF v \in Wanted(a, d) THEN fetches[v] + 1 ELSE fetches[v]]

\* Variant: the rows are stored under the tab that is active on arrival.
StoreKey_Current(view, current) == IF current = << >> THEN view ELSE current[1]

\* The key setData writes: `active` as the effect that sent the request saw it.
StoreKey(view, current) == view

\* prev => ({ ...prev, [active]: json.data || [] })
SetData(prev, k, rows) ==
    [v \in DOMAIN prev \cup {k} |-> IF v = k THEN rows ELSE prev[v]]

\* Variant: the catch branch stores an empty table for the view.
CatchData_Empty(prev, view) == SetData(prev, view, << >>)

\* The state `data` after the catch branch, which does not set it.
CatchData(prev, view) == prev

\* loadViews succeeds: setViews(list), setActive(list[0]) when the list is
\* not empty, and the effect on [active, data] runs.
LoadViews(list) ==
    /\ ~listed
    /\ listed' = TRUE
    /\ views' = list
    /\ active' = IF Len(list) > 0 THEN <<list[1]>> ELSE active
    /\ inflight' = Sent(active', data, inflight)
    /\ fetches' = Counted(active', data)
    /\ UNCHANGED <<data, error, clicks, arrived>>
    /\ UNCHANGED <<storeVars, perfVars, previewVars>>

\* loadViews fails: setError.
LoadViewsFails ==
    /\ ~listed
    /\ listed' = TRUE
    /\ error' = <<"Failed to load views">>
    /\ UNCHANGED <<views, active, data, inflight, fetches, clicks, arrived>>
    /\ UNCHANGED <<storeVars, perfVars, previewVars>>

\* A click on the tab of v: setActive(v); when `active` changes, the effect
\* runs.
Click(v) ==
    /\ clicks < MaxClicks
    /\ \E i \in DOMAIN views : views[i] = v
    /\ clicks' = clicks + 1
    /\ active' = <<v>>
    /\ inflight' = IF active' = active THEN inflight ELSE Sent(active', data, inflight)
    /\ fetches' = IF active' = active THEN fetches ELSE Counted(active', data)
    /\ UNCHANGED <<views, data, error, listed, arrived>>
    /\ UNCHANGED <<storeVars, perfVars, previewVars>>

\* The request req is answered with rows: setData, and since `data`
\* changes, the effect runs.
DataArrives(req, rows) ==
    /\ req \in inflight
    /\ rows \in ViewRows(req.view)
    /\ data' = SetData(data, StoreKey(req.view, active), rows)
    /\ inflight' = Sent(active, data', inflight \ {req})
    /\ fetches' = Counted(active, data')
    /\ arrived' = [req |-> req, ok |-> TRUE, active |-> active]
    /\ UNCHANGED <<views, active, error, listed, clicks>>
    /\ UNCHANGED <<storeVars, perfVars, previewVars>>

\* The request req fails: the catch branch sets `error`; neither `active`
\* nor `data` changes, so the effect does not run.
DataFails(req) ==
    /\ req \in inflight
    /\ error' = <<"Failed to load data for", req.view>>
    /\ data' = CatchData(data, req.view)
    /\ inflight' = IF data' = data THEN inflight \ {req}
                                   ELSE Sent(active, data', inflight \ {req})
    /\ fetches' = IF data' = data THEN fetches ELSE Counted(active, data')
    /\ arrived' = [req |-> req, ok |-> FALSE, active |-> active]
    /\ UNCHANGED <<views, active, listed, clicks>>
    /\ UNCHANGED <<storeVars, perfVars, previewVars>>

ViewsNext ==
    \/ \E list \in ViewLists : LoadViews(list)
    \/ LoadViewsFails
    \/ \E v \in ViewNames : Click(v)
    \/ \E req \in inflight : \E rows \in ViewRows(req.view) : DataArrives(req, rows)
    \/ \E req \in inflight : DataFails(req)

ViewsSpec == Init /\ [][ViewsNext]_vars

\* ---------------------------------------------------------------- the status page
\* The rows of a school that show each of its courses first: a course is a
\* pair of normalized code and title.
FirstSightings(T, name) ==
    SelectSeq([i \in 1..Len(T) |-> i],
              LAMBDA i : /\ i \in DataHits(T, name)
                         /\ \A j \in DataHits(T, name) :
                                ( /\ Coalesce(T[j].course_code) = Coalesce(T[i].course_code)
                                  /\ T[j].course_title = T[i].course_title ) => j >= i)

\* GET /api/school/{name}/courses?limit=n: the count of the distinct
\* courses of the school and a sample of at most n of them.
CoursePreview(T, name, limit) ==
    LET first == FirstSightings(T, name)
        n == IF Len(first) < limit THEN Len(first) ELSE limit
    IN [school_name |-> name,
        distinct_course_count |-> Len(first),
        sample_courses |-> [k \in 1..n |->
            [course_code |-> T[first[k]].course_code,
             course_title |-> T[first[k]].course_title,
             course_description_preview |-> T[first[k]].course_description]]]

\* Variant: the response is not kept.
StorePreview_Drop(prev, name, json) == prev

\* prev => ({ ...prev, [name]: json })
StorePreview(prev, name, json) ==
    [k \in DOMAIN prev \cup {name} |-> IF k = name THEN json ELSE prev[k]]

\* Variant: a click always expands the row.
ExpandedAfter_NoCollapse(cur, name) == <<name>>

\* The state `expanded` after toggle(name): null when the row was expanded,
\* else name.
ExpandedAfter(cur, name) == IF cur = <<name>> THEN << >> ELSE <<name>>

\* The preview rows the table renders: one under each school row r with
\* expanded === r.school_name && previews[r.school_name].
PreviewRows(cur, stored) == {name \in Sources : cur = <<name>> /\ name \in DOMAIN stored}

\* toggle(name): a click on the row of a school collapses it when it is
\* expanded; else expands it and, unless its preview is stored, requests it.
Toggle(name) ==
    /\ toggles < MaxClicks
    /\ toggles' = toggles + 1
    /\ expanded' = ExpandedAfter(expanded, name)
    /\ toggled' = <<name>>
    /\ asked' = IF expanded # <<name>> /\ name \notin DOMAIN previews
                THEN [asked EXCEPT ![name] = @ + 1]
                ELSE asked
    /\ UNCHANGED <<previews, lastPreview>>
    /\ UNCHANGED <<storeVars, perfVars, viewVars>>

\* A preview request is answered and toggle stores the response.
PreviewArrives(name) ==
    /\ asked[name] > 0
    /\ asked' = [asked EXCEPT ![name] = @ - 1]
    /\ previews' = StorePreview(previews, name, CoursePreview(courses, name, PreviewLimit))
    /\ lastPreview' = [name |-> name, empty |-> DataHits(courses, name) = {}]
    /\ UNCHANGED <<expanded, toggles, toggled>>
    /\ UNCHANGED <<storeVars, perfVars, viewVars>>

\* The status page beside one session that ingests.
StatusNext ==
    \/ \E sid \in Sources, rows \in TitleBatches : Call("p1", sid, rows)
    \/ Enter("p1")
    \/ Write("p1")
    \/ \E name \in Sources : Toggle(name)
    \/ \E name \in Sources : PreviewArrives(name)

StatusSpec == Init /\ [][StatusNext]_vars

TypeOK ==
    /\ Rows \cup TitleRows \subseteq CourseData_v1
    /\ spc \in [Procs -> {"idle", "joined"}]
    /\ \A i \in DOMAIN scraper_schemas :
        /\ scraper_schemas[i].scraper_schema_source_id \in SourceIds
        /\ scraper_schemas[i].scraper_schema_json \in SchemaJsons
    /\ pc \in [Procs -> {"idle", "waiting", "merging", "stuck"}]
    /\ submitted \in 0..MaxRows
    /\ \A i \in DOMAIN courses :
        /\ courses[i].course_source_id \in SourceIds
        /\ [course_code |-> courses[i].course_code,
            course_title |-> courses[i].course_title,
            course_description |-> courses[i].course_description] \in CourseData_v1
    /\ \A p \in Procs : held[p] # {} => pc[p] \in {"merging", "stuck"}

\* ---------------------------------------------------------------- properties
\* The identity key of the catalog: (normalized code, title), within a source.
KeyOfRow(s) == <<Coalesce(s.course_code), s.course_title>>

\* The rows of table T that hold key k for source sid.
RecordsOf(T, sid, k) ==
    {i \in DOMAIN T : T[i].course_source_id = sid /\ KeyOfRow(T[i]) = k}

\* The rows of table T that belong to source sid.
RecordsOfSource(T, sid) == {i \in DOMAIN T : T[i].course_source_id = sid}

\* The source rows of the last statement that carry key k, and those rows of
\* the batch whose key no other row of the batch carries.
LastRowsWith(k) == {j \in DOMAIN last.rows : KeyOfRow(last.rows[j]) = k}
LastSingles == {j \in DOMAIN last.rows : LastRowsWith(KeyOfRow(last.rows[j])) = {j}}
LastDuplicated == {j \in DOMAIN last.rows : LastRowsWith(KeyOfRow(last.rows[j])) # {j}}

Max(S) == CHOOSE x \in S : \A y \in S : y <= x

\* The calls to run one after another: the table after calls[order[1]],
\* calls[order[2]], ... each ran alone, starting from table T.
RECURSIVE SerialRun(_, _, _, _)
SerialRun(T, calls, order, n) ==
    IF n = 0 THEN T
    ELSE SaveCourseData(SerialRun(T, calls, order, n - 1),
                        calls[order[n]].sid, calls[order[n]].rows)

Orders(n) == {f \in [1..n -> 1..n] : \A a, b \in 1..n : a # b => f[a] # f[b]}

\* C1: in every reachable state dbo.courses holds at most one row per
\* (source, normalized code, title), the title not empty.
C1_OneRecordPerKey ==
    \A i, j \in DOMAIN courses :
        (/\ i # j
         /\ courses[i].course_title # ""
         /\ courses[i].course_source_id = courses[j].course_source_id)
        => KeyOfRow(courses[i]) # KeyOfRow(courses[j])

\* C2: when every call of a group of overlapping calls for one source carried
\* a single row, the keys of those rows were pairwise different and none was
\* in the table when the group began, then once all calls have returned the
\* source holds exactly one more row per call, each key exactly once.
C2_FreshCalls(sid) == SelectSeq(burst, LAMBDA c : c.sid = sid)

C2_FreshGroup(sid) ==
    LET mine == C2_FreshCalls(sid)
    IN /\ InFlight = {}
       /\ Len(mine) >= 1
       /\ \A n \in DOMAIN mine :
            /\ Len(mine[n].rows) = 1
            /\ RecordsOf(base, sid, KeyOfRow(mine[n].rows[1])) = {}
       /\ \A n, k \in DOMAIN mine :
            n # k => KeyOfRow(mine[n].rows[1]) # KeyOfRow(mine[k].rows[1])

C2_ConcurrentFreshInserts ==
    \A sid \in Sources :
        C2_FreshGroup(sid) =>
            LET mine == C2_FreshCalls(sid)
            IN /\ Cardinality(RecordsOfSource(courses, sid))
                    = Cardinality(RecordsOfSource(base, sid)) + Len(mine)
               /\ \A n \in DOMAIN mine :
                    Cardinality(RecordsOf(courses, sid, KeyOfRow(mine[n].rows[1]))) = 1

\* Two calls for S1 were in flight together, each with one new key, and both
\* have returned.
C2_Witness ==
    /\ C2_FreshGroup("S1")
    /\ Len(burst) = 2
    /\ Len(C2_FreshCalls("S1")) = 2
    /\ Cardinality(RecordsOfSource(courses, "S1")) = 2

\* C3: a batch that carries one key (its title not empty) twice, for a source
\* that held no row of that key, leaves exactly one row of that key.
C3_IntraBatchDuplicateOneRecord ==
    \A j \in LastDuplicated :
        LET k == KeyOfRow(last.rows[j])
        IN (last.rows[j].course_title # "" /\ RecordsOf(last.before, last.sid, k) = {})
           => Cardinality(RecordsOf(courses, last.sid, k)) = 1

\* C4: a batch that carries one key (its title not empty) several times
\* raises no error, and the description stored for the key is that of the
\* last such row of the batch.
C4_LastRowWins ==
    \A j \in LastDuplicated :
        LET k == KeyOfRow(last.rows[j])
            final == last.rows[Max(LastRowsWith(k))]
        IN last.rows[j].course_title # "" =>
           /\ ~last.error
           /\ RecordsOf(courses, last.sid, k) # {}
           /\ \A i \in RecordsOf(courses, last.sid, k) :
                courses[i].course_description = final.course_description

C6_Statement(T, sid, rows, T2) ==
    \A j \in DOMAIN rows :
        LET s == rows[j]
            k == KeyOfRow(s)
            old == RecordsOf(T, sid, k)
        IN (/\ \A n \in DOMAIN rows : n # j => KeyOfRow(rows[n]) # k
            /\ Cardinality(old) = 1
            /\ \A i \in old : {T[i].course_code, s.course_code} = {NULL, ""})
           => RecordsOf(T2, sid, k) = old

\* It holds of the statement that completed last.
C6_NullAndEmptyCodeSameRecord ==
    C6_Statement(last.before, last.sid, last.rows, courses)

\* A row with an empty code was ingested into a source that held the same
\* title under a NULL code, and the source still holds one row of that title.
C6_Witness ==
    /\ Len(last.rows) = 1
    /\ last.rows[1].course_code = ""
    /\ Len(last.before) = 1
    /\ last.before[1].course_code = NULL
    /\ last.before[1].course_source_id = last.sid
    /\ last.before[1].course_title = last.rows[1].course_title
    /\ Len(courses) = 1

\* C7: re-ingesting a key the source holds once, with another description,
\* leaves one row of that key, holding the new description: stated of a
\* statement that took table T to table T2 and whose batch carries no key
\* twice.
C7_Statement(T, sid, rows, T2) ==
    (\A n, j \in DOMAIN rows : n # j => KeyOfRow(rows[n]) # KeyOfRow(rows[j]))
    => \A j \in DOMAIN rows :
        LET s == rows[j]
            k == KeyOfRow(s)
            old == RecordsOf(T, sid, k)
        IN (/\ Cardinality(old) = 1
            /\ \A i \in old : T[i].course_description # s.course_description)
           => /\ RecordsOf(T2, sid, k) = old
              /\ \A i \in old : T2[i].course_description = s.course_description

\* It holds of the statement that completed last.
C7_NewerDescriptionStored ==
    C7_Statement(last.before, last.sid, last.rows, courses)

\* CS101 / Intro was stored with "v1" and re-ingested with "v2".
C7_Witness ==
    /\ Len(last.rows) = 1
    /\ last.rows[1].course_code = "CS101"
    /\ last.rows[1].course_description = "v2"
    /\ Len(last.before) = 1
    /\ last.before[1] = InsertValues(last.sid, [last.rows[1] EXCEPT !.course_description = "v1"])
    /\ Len(courses) = 1
    /\ courses[1].course_description = "v2"

\* When all calls of a group of overlapping calls have returned, dbo.courses
\* is what running those calls one after another, in some order, makes of the
\* table the group started from.
SerialOutcome ==
    InFlight = {} =>
        \E order \in Orders(Len(burst)) :
            courses = SerialRun(base, burst, order, Len(burst))

C9_OtherSourceNotBlocked ==
    \A p, q \in Procs :
        (/\ pc[p] = "merging"
         /\ pc[q] = "waiting"
         /\ call[p].sid # call[q].sid)
        => CanEnter(q)

\* C10: a row with an empty title creates and changes no row of dbo.courses,
\* and every row of the same batch with a non-empty title is stored.
C10_EmptyTitleRejectedAlone ==
    /\ \A i \in DOMAIN courses :
        courses[i].course_title = ""
        => i \in DOMAIN last.before /\ last.before[i] = courses[i]
    /\ (\E j \in DOMAIN last.rows : last.rows[j].course_title = "")
        => \A j \in LastSingles :
            last.rows[j].course_title # ""
            => \E i \in RecordsOf(courses, last.sid, KeyOfRow(last.rows[j])) :
                courses[i].course_description = last.rows[j].course_description

\* C11: no row of dbo.courses has an empty title.
C11_NoEmptyTitle ==
    \A i \in DOMAIN courses : courses[i].course_title # ""

\* C17: a statement leaves every row it found in its place in insertion
\* order (a row's creation is never redone) with its source, stored code and
\* title; only the description of a row may differ.
C17_OnlyDescriptionChanges ==
    /\ Len(courses) >= Len(last.before)
    /\ \A i \in DOMAIN last.before :
        courses[i] = [last.before[i] EXCEPT
                        !.course_description = courses[i].course_description]

\* A row stored with a NULL code was matched by a row with an empty code and
\* another description: it has the new description and still the NULL code.
C17_Witness ==
    /\ Len(last.rows) = 1
    /\ Len(last.before) = 1
    /\ Len(courses) = 1
    /\ last.before[1].course_code = NULL
    /\ last.rows[1].course_code = ""
    /\ courses[1].course_code = NULL
    /\ courses[1].course_description = last.rows[1].course_description
    /\ courses[1].course_description # last.before[1].course_description

\* The counts the ingest contract promises for a batch on table T: inserted
\* is the number of distinct keys of the batch absent from T, updated the
\* number present.
C16_Counts(T, sid, rows) ==
    LET keys == {KeyOfRow(rows[j]) : j \in DOMAIN rows}
    IN [inserted |-> Cardinality({k \in keys : RecordsOf(T, sid, k) = {}}),
        updated |-> Cardinality({k \in keys : RecordsOf(T, sid, k) # {}})]

\* C16: a call whose rows all have a title and distinct keys hands back
\* the counts {inserted, updated} of its batch.
C16_CountsReturned ==
    ( /\ last.sid \in Sources
      /\ ~last.error
      /\ LastDuplicated = {}
      /\ \A j \in DOMAIN last.rows : last.rows[j].course_title # "" )
    => last.returned = {C16_Counts(last.before, last.sid, last.rows)}

\* C12: a get_schema of a registered source returns the payload of the
\* save_schema that completed last on the source and nothing else, when that
\* save_schema wrote the rows it had read: after save_schema(S, p) it returns
\* p, after a later save_schema(S, p2) it returns p2 only.
C12_GetReturnsLastPut ==
    (got.sid \in Sources /\ got.put.json \in SchemaJsons /\ got.put.alone)
    => /\ Len(got.result) >= 1
       /\ \A i \in DOMAIN got.result : got.result[i] = got.put.json

\* The source holds one row that was written twice, and get_schema returned
\* the second payload only.
C12_Witness ==
    /\ got.sid \in Sources
    /\ got.put.alone
    /\ submitted = 2
    /\ Len(scraper_schemas) = 1
    /\ \A p \in Procs : spc[p] = "idle"
    /\ got.put.json = "{b}"
    /\ got.result = <<"{b}">>

\* C13: dbo.scraper_schemas holds at most one row per source id.
C13_OneSchemaPerSource ==
    \A sid \in Sources : Cardinality(MatchSchema(scraper_schemas, sid)) <= 1

\* C14: a get_schema of a registered source that runs after a save_schema of
\* the source has completed returns a payload, and no payload other than
\* that of the save_schema that completed last on the source.
C14_GetLinearizable ==
    (got.sid \in Sources /\ got.put.json \in SchemaJsons)
    => /\ Len(got.result) >= 1
       /\ \A i \in DOMAIN got.result : got.result[i] = got.put.json

\* C15: no row of dbo.scraper_schemas and no row of dbo.courses names a
\* source id that is not in dbo.sources.
C15_UnknownSourceRejected ==
    /\ \A i \in DOMAIN scraper_schemas :
            scraper_schemas[i].scraper_schema_source_id \in Sources
    /\ \A i \in DOMAIN courses : courses[i].course_source_id \in Sources

\* C18: a statement of one row whose code a stored row of the source has
\* under another title, and whose key no stored row has, adds one row with
\* the incoming title and leaves every stored row as it was.
C18_Case ==
    /\ last.sid \in SourceIds
    /\ Len(last.rows) = 1
    /\ RecordsOf(last.before, last.sid, KeyOfRow(last.rows[1])) = {}
    /\ \E i \in DOMAIN last.before :
        /\ last.before[i].course_source_id = last.sid
        /\ Coalesce(last.before[i].course_code) = Coalesce(last.rows[1].course_code)
        /\ last.before[i].course_title # last.rows[1].course_title

C18_ChangedTitleNewRecord ==
    C18_Case
    => /\ Len(courses) = Len(last.before) + 1
       /\ \A i \in DOMAIN last.before : courses[i] = last.before[i]
       /\ courses[Len(courses)] = InsertValues(last.sid, last.rows[1])

\* CS101 'Intro' was stored, CS101 'Algo' came in: both are stored.
C18_Witness ==
    /\ C18_Case
    /\ last.rows[1].course_title = "Algo"
    /\ Len(courses) = 2
    /\ courses[1].course_title = "Intro"
    /\ courses[1].course_description = "v1"
    /\ courses[2].course_title = "Algo"

\* C19: a statement whose caller saw it succeed has applied its whole batch
\* (every row of the batch has its record), and a statement whose caller saw
\* it fail, the storage having become unavailable or not, has applied the
\* whole batch or nothing.
C19_NoSilentPartialResult ==
    last.sid \in Sources =>
        /\ last.ok =>
            /\ ~last.error
            /\ courses = SaveCourseData(last.before, last.sid, last.rows)
            /\ \A j \in DOMAIN last.rows :
                \E i \in RecordsOf(courses, last.sid, KeyOfRow(last.rows[j])) :
                    j \in LastSingles =>
                        courses[i].course_description = last.rows[j].course_description
        /\ ~last.ok =>
            courses \in {last.before,
                         SaveCourseData(last.before, last.sid, last.rows)}

\* The storage became unavailable under a batch of two rows that would have
\* changed the table: the caller saw a failure and the table is as before.
C19_Witness ==
    /\ last.sid \in Sources
    /\ Len(last.rows) = 2
    /\ ~last.ok
    /\ courses = last.before
    /\ SaveCourseData(last.before, last.sid, last.rows) # last.before

\* C20: every call that waits for its locks completes.
C20_EveryCallCompletes ==
    \A p \in Procs : (pc[p] = "waiting") ~> (pc[p] = "idle")

\* C26: a statement for one source leaves every row of every other source
\* as it was and adds rows of its own source only; unless it failed, each
\* row of its batch has a record under its own source afterwards, whatever
\* the other sources hold.
C26_OtherSourcesUntouched ==
    last.sid \in Sources =>
        /\ \A i \in DOMAIN last.before :
            last.before[i].course_source_id # last.sid => courses[i] = last.before[i]
        /\ \A i \in DOMAIN courses \ DOMAIN last.before :
            courses[i].course_source_id = last.sid
        /\ ~last.error =>
            \A j \in DOMAIN last.rows :
                RecordsOf(courses, last.sid, KeyOfRow(last.rows[j])) # {}

\* Another source held the key of the incoming row and the source of the
\* statement did not: afterwards both hold it, in two rows.
C26_Witness ==
    /\ last.sid \in Sources
    /\ Len(last.rows) = 1
    /\ RecordsOf(last.before, last.sid, KeyOfRow(last.rows[1])) = {}
    /\ \E b \in Sources \ {last.sid} :
        /\ RecordsOf(last.before, b, KeyOfRow(last.rows[1])) # {}
        /\ RecordsOf(courses, b, KeyOfRow(last.rows[1])) # {}
    /\ RecordsOf(courses, last.sid, KeyOfRow(last.rows[1])) # {}
    /\ Len(courses) = Len(last.before) + 1

\* C23: no step removes a row of dbo.courses or changes the source or the
\* identity key of a row: the rows present stay, with their keys.
C23_RecordsNeverDeleted ==
    [][ /\ Len(courses') >= Len(courses)
        /\ \A i \in DOMAIN courses :
            /\ courses'[i].course_source_id = courses[i].course_source_id
            /\ KeyOfRow(courses'[i]) = KeyOfRow(courses[i]) ]_vars

\* A row was stored, and a later statement of another key and a get_schema
\* have run: the row is still there.
C23_Witness ==
    /\ Len(last.before) >= 1
    /\ RecordsOf(courses, last.before[1].course_source_id,
                 KeyOfRow(last.before[1])) # {}
    /\ Len(courses) > Len(last.before)
    /\ got.sid # "none"

\* C22: a get_schema changes no table, and for a source id that is not in
\* dbo.sources or has no row in dbo.scraper_schemas its result is empty.
C22_NotFoundIsEmpty ==
    [][ got' # got =>
            /\ scraper_schemas' = scraper_schemas
            /\ courses' = courses
            /\ lastPut' = lastPut
            /\ ( \/ got'.sid \notin Sources
                 \/ MatchSchema(scraper_schemas, got'.sid) = {} )
               => got'.result = << >> ]_vars

\* A schema row exists for the unregistered id, and get_schema of that id
\* returned nothing.
C22_Witness ==
    /\ got.sid = "S9"
    /\ MatchSchema(scraper_schemas, "S9") # {}
    /\ got.result = << >>

\* C21: the update of a session whose MERGE holds its ranges is never kept
\* waiting by a read in progress.
C21_ReadsNeverDelayWriters ==
    \A p \in Procs : pc[p] = "merging" => WriteGrantable(p)

\* C27: a get_data returns at most 100 rows, each of them the three columns
\* of a row of dbo.courses of the requested source, and nothing for an id
\* that has no rows or is not in dbo.sources.
C27_GetDataBounded ==
    gotData.sid # "none" =>
        /\ Len(gotData.result) <= 100
        /\ \A k \in DOMAIN gotData.result :
            \E i \in DOMAIN courses :
                /\ courses[i].course_source_id = gotData.sid
                /\ gotData.result[k] =
                    [course_code |-> courses[i].course_code,
                     course_title |-> courses[i].course_title,
                     course_description |-> courses[i].course_description]
        /\ ( \/ gotData.sid \notin Sources
             \/ RecordsOfSource(courses, gotData.sid) = {} )
           => gotData.result = << >>

\* The source holds more than 100 rows and get_data returned 100 of them.
C27_Witness ==
    /\ gotData.sid = "S1"
    /\ Cardinality(RecordsOfSource(courses, "S1")) > 100
    /\ Len(gotData.result) = 100

\* One row's finish time is later than the other's.
LaterFinish(a, b) ==
    /\ a.courses_extracted_ts # << >>
    /\ b.courses_extracted_ts # << >>
    /\ a.courses_extracted_ts[1] > b.courses_extracted_ts[1]

\* C25: before any click on a column header the displayed rows are the
\* fetched rows, each once, and no row stands before a row that finished
\* later.
C25_DefaultOrderFinishDesc ==
    ~clicked =>
        /\ Len(sorted) = Len(perfRows)
        /\ {sorted[i] : i \in DOMAIN sorted} = {perfRows[i] : i \in DOMAIN perfRows}
        /\ \A i, j \in DOMAIN sorted : i < j => ~LaterFinish(sorted[j], sorted[i])

\* The rows of the table the views page shows: data[active] || [].
Shown == IF active # << >> /\ active[1] \in DOMAIN data THEN data[active[1]] ELSE << >>

\* C28: the rows stored under a view name were fetched for that view, and
\* the table shown for the active tab holds rows of its view only.
C28_RowsUnderTheirView ==
    /\ \A v \in DOMAIN data : \A i \in DOMAIN data[v] : data[v][i].view = v
    /\ \A i \in DOMAIN Shown : Shown[i].view = active[1]

\* A request for one view was answered while the tab of the other was
\* active, and its rows are stored under the view of the request.
C28_Witness ==
    /\ arrived.ok
    /\ arrived.req.view \in ViewNames
    /\ arrived.active # << >>
    /\ arrived.active[1] # arrived.req.view
    /\ arrived.req.view \in DOMAIN data
    /\ data[arrived.req.view] = <<[view |-> arrived.req.view]>>

\* C29 as claimed: no view is ever requested twice.
C29_OneFetchPerView ==
    \A v \in ViewNames : fetches[v] <= 1

\* C29 as amended: a step sends at most one request, and none for a view
\* whose rows are stored; a view whose rows are stored is not requested again.
C29_NoFetchOnceLoaded ==
    [][ \A v \in ViewNames :
            /\ fetches'[v] <= fetches[v] + 1
            /\ fetches'[v] > fetches[v] => (v \notin DOMAIN data /\ v \notin DOMAIN data') ]_vars

\* The rows of a view are stored, the user has come back to its tab, and
\* the view was requested once.
C29_Witness ==
    /\ clicks >= 2
    /\ active # << >>
    /\ active[1] \in DOMAIN data
    /\ fetches[active[1]] = 1
    /\ inflight = {}

\* C30: the step in which a request for a view fails sets the error message
\* naming the view, leaves `data` as it was and sends no request.
C30_FailureStoresNothing ==
    [][ (arrived' # arrived /\ ~arrived'.ok) =>
            /\ error' = <<"Failed to load data for", arrived'.req.view>>
            /\ data' = data
            /\ fetches' = fetches
            /\ inflight' = inflight \ {arrived'.req} ]_vars

\* A request of the active tab failed while the rows of the other view were
\* stored: those rows are still stored, nothing is stored for the failed view
\* and no request is in flight.
C30_Witness ==
    /\ ~arrived.ok
    /\ error = <<"Failed to load data for", arrived.req.view>>
    /\ active = <<arrived.req.view>>
    /\ arrived.req.view \notin DOMAIN data
    /\ DOMAIN data # {}
    /\ inflight = {}

BannerShown == error # << >>

\* C31: when the load that completed last brought the rows of the active
\* view, and those rows are shown, no error banner is displayed.
C31_NoStaleError ==
    ( /\ arrived.ok
      /\ arrived.req.view \in ViewNames
      /\ active = <<arrived.req.view>>
      /\ arrived.req.view \in DOMAIN data )
    => ~BannerShown

\* C32: at most one preview row is rendered; a click on the row that is
\* expanded leaves no row expanded, and a click on any other row leaves
\* that row, and no other, expanded.
C32_OneRowExpanded ==
    /\ [](Cardinality(PreviewRows(expanded, previews)) <= 1)
    /\ [][ toggles' # toggles =>
            /\ Len(toggled') = 1
            /\ expanded = toggled' => expanded' = << >>
            /\ expanded # toggled' => expanded' = toggled' ]_vars

\* The row of S1 was expanded and its preview stored; then the row of S2 was
\* clicked: S2 is expanded and its preview row is the only one rendered.
C32_Witness ==
    /\ toggles = 2
    /\ toggled = <<"S2">>
    /\ expanded = <<"S2">>
    /\ "S1" \in DOMAIN previews
    /\ PreviewRows(expanded, previews) = {"S2"}

\* The number of places of the sequence a that hold x.
Occurrences(a, x) == Cardinality({i \in DOMAIN a : a[i] = x})

\* C33: after a click on the header of a field, that field is the sort
\* field; the direction is the opposite of the one before when the field was
\* the sort field already, and desc when it was not; and the displayed rows
\* hold every fetched row as many times as it was fetched, and no other.
C33_HeaderClicks ==
    /\ handled.field # "none" =>
        /\ sortField = handled.field
        /\ handled.wasField = handled.field =>
                {sortDir, handled.wasDir} = {"asc", "desc"}
        /\ handled.wasField # handled.field => sortDir = "desc"
    /\ Len(sorted) = Len(perfRows)
    /\ \A x \in PerformanceRow : Occurrences(sorted, x) = Occurrences(perfRows, x)

\* Three fetched runs, the second without a finish time, were sorted by
\* run: a click on Run found the order by finish time and chose run desc, a
\* second click flipped it to asc, and the three rows stand in run order.
C33_Witness ==
    /\ handled = [field |-> "run_id", wasField |-> "run_id", wasDir |-> "desc"]
    /\ sortField = "run_id"
    /\ sortDir = "asc"
    /\ Len(perfRows) = 3
    /\ perfRows[2].courses_extracted_ts = << >>
    /\ [i \in 1..3 |-> sorted[i].run_id] = <<1, 2, 3>>

\* C34: the headers of the table shown for the active view are the fields
\* of its rows, each once; every row has one cell per header, holding the
\* value of the field, and the empty string when the row does not have the
\* field or has it null.
C34_OpenRows ==
    LET h == Headers(Shown)
        cells == TableBody(Shown)
    IN /\ {h[k] : k \in DOMAIN h} = UNION {DOMAIN Shown[i] : i \in DOMAIN Shown}
       /\ \A k, l \in DOMAIN h : h[k] = h[l] => k = l
       /\ \A i \in DOMAIN Shown :
            /\ Len(cells[i]) = Len(h)
            /\ \A f \in DOMAIN Shown[i] :
                \E k \in DOMAIN h :
                    /\ h[k] = f
                    /\ cells[i][k] = IF Shown[i][f] = NULL THEN "" ELSE Shown[i][f]
            /\ \A k \in DOMAIN h : h[k] \notin DOMAIN Shown[i] => cells[i][k] = ""

\* The active view shows two rows with different fields: the table has the
\* three headers, the first row an empty cell for its null code and one for
\* the title it lacks, the second an empty cell for the code it lacks.
C34_Witness ==
    /\ Len(Shown) = 2
    /\ DOMAIN Shown[1] # DOMAIN Shown[2]
    /\ Headers(Shown) = <<"view", "code", "title">>
    /\ TableBody(Shown) = <<<<active[1], "", "">>, <<active[1], "", "t">>>>
====
